---- MODULE Spec2Model ----
(***************************************************************************)
(* ECG bill calculator: the tariff schedule editor (updateBand,            *)
(* addBandBeforeInfinity, removeBand, resetRates) and the bill engine      *)
(* (calculateBill) of the ECGBillCalculator component, with the readings   *)
(* it keeps in localStorage.                                               *)
(*                                                                         *)
(* JavaScript numbers are IEEE-754 doubles: sign, 53-bit significand and   *)
(* exponent, with signed zeros and infinities, NaN and undefined; +, - and *)
(* * round to the nearest double, ties to even.  The form fields hold      *)
(* whole numbers.  Arrays are sequences; the JavaScript index i is         *)
(* position i + 1.  Strings are sequences of characters.                   *)
(***************************************************************************)
EXTENDS Integers, Sequences, FiniteSets, TLC

\* ------------------------------------------------------------- bounds

\* How many bands addBand puts into a class beyond its default count.
MaxAdded == 1
\* How many updateBand calls one behaviour makes.
MaxUpdates == 1
\* The longest schedule drawn for the bill engine's own specification.
MaxDrawn == 3

\* ------------------------------------------------- JavaScript numbers

\* A limb is a digit in base 2^14; a natural number is a sequence of limbs,
\* the lowest first.
B == 2^14

Limb(p, i) == IF i >= 1 /\ i <= Len(p) THEN p[i] ELSE 0

\* The number of bits of a limb.
BitLenInt(x) ==
  IF x >= 128
  THEN (IF x >= 2048
        THEN (IF x >= 8192 THEN 14 ELSE IF x >= 4096 THEN 13 ELSE 12)
        ELSE (IF x >= 1024 THEN 11 ELSE IF x >= 512 THEN 10
              ELSE IF x >= 256 THEN 9 ELSE 8))
  ELSE (IF x >= 8
        THEN (IF x >= 64 THEN 7 ELSE IF x >= 32 THEN 6
              ELSE IF x >= 16 THEN 5 ELSE 4)
        ELSE (IF x >= 4 THEN 3 ELSE IF x >= 2 THEN 2 ELSE x))

\* The number of bits of the 8 limbs p, 0 for 0.
BitLen(p) ==
  IF p[8] # 0 THEN 98 + BitLenInt(p[8])
  ELSE IF p[7] # 0 THEN 84 + BitLenInt(p[7])
  ELSE IF p[6] # 0 THEN 70 + BitLenInt(p[6])
  ELSE IF p[5] # 0 THEN 56 + BitLenInt(p[5])
  ELSE IF p[4] # 0 THEN 42 + BitLenInt(p[4])
  ELSE IF p[3] # 0 THEN 28 + BitLenInt(p[3])
  ELSE IF p[2] # 0 THEN 14 + BitLenInt(p[2])
  ELSE BitLenInt(p[1])

\* p * 2^d, its 4 and its 8 lowest limbs, and floor(p / 2^r), its 4 lowest.
ShiftLeft4(p, d) ==
  LET q == d \div 14
      lo == 2^(d % 14)
      hi == 2^(14 - (d % 14))
      At(i) == (Limb(p, i - q) % hi) * lo + Limb(p, i - q - 1) \div hi
  IN  <<At(1), At(2), At(3), At(4)>>

ShiftLeft8(p, d) ==
  LET q == d \div 14
      lo == 2^(d % 14)
      hi == 2^(14 - (d % 14))
      At(i) == (Limb(p, i - q) % hi) * lo + Limb(p, i - q - 1) \div hi
  IN  <<At(1), At(2), At(3), At(4), At(5), At(6), At(7), At(8)>>

ShiftRight4(p, r) ==
  LET q == r \div 14
      lo == 2^(r % 14)
      hi == 2^(14 - (r % 14))
      At(i) == Limb(p, i + q) \div lo + (Limb(p, i + q + 1) % lo) * hi
  IN  <<At(1), At(2), At(3), At(4)>>

\* Bit j of p, and whether the j lowest bits of p are all 0.
BitAt(p, j) == (Limb(p, j \div 14 + 1) \div 2^(j % 14)) % 2
LowZero(p, j) ==
  /\ \A i \in 1..(j \div 14) : Limb(p, i) = 0
  /\ Limb(p, j \div 14 + 1) % 2^(j % 14) = 0

\* a + b, and a - b for a >= b, on 8 limbs.
Add(a, b) ==
  LET c1 == a[1] + b[1]
      c2 == a[2] + b[2] + c1 \div B
      c3 == a[3] + b[3] + c2 \div B
      c4 == a[4] + b[4] + c3 \div B
      c5 == a[5] + b[5] + c4 \div B
      c6 == a[6] + b[6] + c5 \div B
      c7 == a[7] + b[7] + c6 \div B
      c8 == a[8] + b[8] + c7 \div B
  IN  <<c1 % B, c2 % B, c3 % B, c4 % B, c5 % B, c6 % B, c7 % B, c8 % B>>

Sub(a, b) ==
  LET c1 == a[1] - b[1]
      c2 == a[2] - b[2] + c1 \div B
      c3 == a[3] - b[3] + c2 \div B
      c4 == a[4] - b[4] + c3 \div B
      c5 == a[5] - b[5] + c4 \div B
      c6 == a[6] - b[6] + c5 \div B
      c7 == a[7] - b[7] + c6 \div B
      c8 == a[8] - b[8] + c7 \div B
  IN  <<c1 % B, c2 % B, c3 % B, c4 % B, c5 % B, c6 % B, c7 % B, c8 % B>>

\* m + 1 on 4 limbs.
Inc(m) ==
  LET c1 == m[1] + 1
      c2 == m[2] + c1 \div B
      c3 == m[3] + c2 \div B
      c4 == m[4] + c3 \div B
  IN  <<c1 % B, c2 % B, c3 % B, c4>>

\* -1, 0, 1 as a < b, a = b, a > b, read from limb i down.
RECURSIVE CmpFrom(_, _, _)
CmpFrom(a, b, i) ==
  IF i = 0 THEN 0
  ELSE IF Limb(a, i) < Limb(b, i) THEN -1
  ELSE IF Limb(a, i) > Limb(b, i) THEN 1
  ELSE CmpFrom(a, b, i - 1)

\* a * b for two significands of four limbs.
Mul(a, b) ==
  LET c1 == a[1] * b[1]
      c2 == a[1] * b[2] + a[2] * b[1] + c1 \div B
      c3 == a[1] * b[3] + a[2] * b[2] + a[3] * b[1] + c2 \div B
      c4 == a[1] * b[4] + a[2] * b[3] + a[3] * b[2] + a[4] * b[1] + c3 \div B
      c5 == a[2] * b[4] + a[3] * b[3] + a[4] * b[2] + c4 \div B
      c6 == a[3] * b[4] + a[4] * b[3] + c5 \div B
      c7 == a[4] * b[4] + c6 \div B
  IN  <<c1 % B, c2 % B, c3 % B, c4 % B, c5 % B, c6 % B, c7 % B, c7 \div B>>

\* A double: k is its kind; a finite one is s * m * 2^e with the sign s (1 or
\* -1), the significand m of four limbs, 2^52 <= m < 2^53 (below 2^52 only
\* at e = MinExp, the subnormals) and 0 with e = 0.  Infinity carries a sign.
MinExp == -1074
MaxExp == 971
NoLimbs == <<0, 0, 0, 0>>
Double(s, m, e) == [k |-> "num", s |-> s, m |-> m, e |-> e]
Zero(s) == Double(s, NoLimbs, 0)
Inf(s) == [k |-> "inf", s |-> s, m |-> NoLimbs, e |-> 0]
Infinity == Inf(1)
NaN == [k |-> "nan", s |-> 1, m |-> NoLimbs, e |-> 0]
Undefined == [k |-> "undef", s |-> 1, m |-> NoLimbs, e |-> 0]
\* A field a Partial<Band> does not carry.
Absent == [k |-> "absent", s |-> 1, m |-> NoLimbs, e |-> 0]

IsNum(x) == x.k = "num"
IsZero(x) == x.k = "num" /\ x.m = NoLimbs
\* A number or an infinity: what arithmetic does not turn into NaN.
IsNumeric(x) == x.k \in {"num", "inf"}

\* The double s * m * 2^e for a significand m that rounding has left at
\* 2^53 or below: 2^53 is 2^52 with the next exponent.
Normal(s, m, e) ==
  IF m[4] >= 2048
  THEN (IF e + 1 > MaxExp THEN Inf(s) ELSE Double(s, <<0, 0, 0, 1024>>, e + 1))
  ELSE IF m = NoLimbs THEN Zero(s)
  ELSE IF e > MaxExp THEN Inf(s)
  ELSE Double(s, m, e)

\* The bits kept of a result, one up when the bits dropped are above half a
\* unit in the last place, or half a unit with the last bit kept odd.
RoundUp(s, kept, half, rest, e) ==
  Normal(s, IF half /\ (rest \/ kept[1] % 2 = 1) THEN Inc(kept) ELSE kept, e)

\* The double nearest to s * (p + f) * 2^e at the exponent ef of its last
\* place: the r = ef - e lowest bits of p are dropped.
RoundAt(s, p, e, sticky, ef) ==
  IF ef <= e
  THEN (IF ef > MaxExp THEN Inf(s) ELSE Double(s, ShiftLeft4(p, e - ef), ef))
  ELSE RoundUp(s, ShiftRight4(p, ef - e), BitAt(p, ef - e - 1) = 1,
               sticky \/ ~LowZero(p, ef - e - 1), ef)

\* The same for p of len bits, len > 0: the last place is at e + len - 53,
\* at MinExp for a subnormal.
RoundBits(s, p, e, sticky, len) ==
  RoundAt(s, p, e, sticky,
          IF e + len - 53 < MinExp THEN MinExp ELSE e + len - 53)

\* The double nearest to s * (p + f) * 2^e, ties to even, where p is a
\* natural number and f a fraction in [0, 1) that is not 0 iff sticky.
Round(s, p, e, sticky) ==
  IF p = <<0, 0, 0, 0, 0, 0, 0, 0>> THEN Zero(s)
  ELSE RoundBits(s, p, e, sticky, BitLen(p))

Abs(x) == IF x < 0 THEN -x ELSE x

\* The whole number n as a double.
Fin(n) ==
  LET a == Abs(n)
  IN  IF n = 0 THEN Zero(1) ELSE
      Round(IF n < 0 THEN -1 ELSE 1,
            <<a % B, (a \div B) % B, a \div (B * B), 0, 0, 0, 0, 0>>, 0, FALSE)

\* The next 14 bits of the quotient r / d, r < d, and the remainder left.
RECURSIVE DivBits(_, _, _, _)
DivBits(r, d, bits, q) ==
  IF bits = 0 THEN <<q, r>>
  ELSE IF r = 0 THEN <<q * 2^bits, 0>>
  ELSE IF 2 * r >= d THEN DivBits(2 * r - d, d, bits - 1, 2 * q + 1)
  ELSE DivBits(2 * r, d, bits - 1, 2 * q)

\* The limbs of the fraction r / d, the highest limb last, count of them,
\* with the remainder appended.
RECURSIVE DivLimbs(_, _, _)
DivLimbs(r, d, count) ==
  IF count = 0 THEN <<r>>
  ELSE LET step == DivBits(r, d, 14, 0)
       IN  DivLimbs(step[2], d, count - 1) \o <<step[1]>>

RECURSIVE Doublings(_, _)
Doublings(a, d) == IF a >= d THEN 0 ELSE 1 + Doublings(2 * a, d)

\* The double nearest to n / d for whole n and d, 0 < d < 2^30: what a
\* decimal literal denotes, and the quotient of two whole doubles.
Num(n, d) ==
  IF n = 0 THEN Zero(1)
  ELSE LET c == Doublings(Abs(n), d)
           a == Abs(n) * 2^c
           whole == a \div d
           frac == DivLimbs(a % d, d, 4)
           p == SubSeq(frac, 2, 5)
                  \o <<whole % B, (whole \div B) % B, whole \div (B * B), 0>>
       IN  Round(IF n < 0 THEN -1 ELSE 1, p, -56 - c, frac[1] # 0)

\* x + y from the aligned significands xm and ym, both in units of 2^y.e,
\* with c their comparison: the sum under a common sign, else the difference
\* under the sign of the greater.
PlusLimbs(x, y, xm, ym, c) ==
  IF x.s # y.s /\ c = 0 THEN Zero(1)
  ELSE Round(IF x.s = y.s \/ c > 0 THEN x.s ELSE y.s,
             IF x.s = y.s THEN Add(xm, ym)
             ELSE IF c > 0 THEN Sub(xm, ym) ELSE Sub(ym, xm),
             y.e, FALSE)

\* x + y for non-zero finite x and y, x.e >= y.e: beyond 56 binary places y
\* is below half a unit in the last place of x.
PlusShifted(x, y, xm, ym) == PlusLimbs(x, y, xm, ym, CmpFrom(xm, ym, 8))
PlusAligned(x, y) ==
  IF x.e - y.e > 56 THEN x
  ELSE PlusShifted(x, y, ShiftLeft8(x.m, x.e - y.e), y.m \o NoLimbs)

Neg(a) == IF IsNumeric(a) THEN [a EXCEPT !.s = -a.s] ELSE NaN

\* a + b
Plus(a, b) ==
  IF ~IsNumeric(a) \/ ~IsNumeric(b) THEN NaN
  ELSE IF a.k = "inf" THEN (IF b.k = "inf" /\ b.s # a.s THEN NaN ELSE a)
  ELSE IF b.k = "inf" THEN b
  ELSE IF IsZero(a) /\ IsZero(b) THEN Zero(IF a.s = -1 /\ b.s = -1 THEN -1 ELSE 1)
  ELSE IF IsZero(a) THEN b
  ELSE IF IsZero(b) THEN a
  ELSE PlusAligned(IF a.e >= b.e THEN a ELSE b, IF a.e >= b.e THEN b ELSE a)

\* A subtraction that leaves its left operand as it is.
Minus_Kept(a, b) == a
\* a - b
Minus(a, b) == Plus(a, Neg(b))

\* a * b
Times(a, b) ==
  IF ~IsNumeric(a) \/ ~IsNumeric(b) THEN NaN
  ELSE IF a.k = "inf" \/ b.k = "inf"
  THEN (IF IsZero(a) \/ IsZero(b) THEN NaN ELSE Inf(a.s * b.s))
  ELSE IF IsZero(a) \/ IsZero(b) THEN Zero(a.s * b.s)
  ELSE Round(a.s * b.s, Mul(a.m, b.m), a.e + b.e, FALSE)

\* |a| < |b| for numbers and infinities.
MagLess(a, b) ==
  IF a.k = "inf" THEN FALSE
  ELSE IF b.k = "inf" THEN TRUE
  ELSE IF IsZero(b) THEN FALSE
  ELSE IF IsZero(a) THEN TRUE
  ELSE a.e < b.e \/ (a.e = b.e /\ CmpFrom(a.m, b.m, 4) < 0)

\* a < b: false when either is NaN.
Less(a, b) ==
  /\ IsNumeric(a) /\ IsNumeric(b)
  /\ LET sa == IF IsZero(a) THEN 0 ELSE a.s
         sb == IF IsZero(b) THEN 0 ELSE b.s
     IN  IF sa # sb THEN sa < sb
         ELSE IF sa = 1 THEN MagLess(a, b)
         ELSE IF sa = -1 THEN MagLess(b, a)
         ELSE FALSE

\* a < 0 in place of a <= 0.
LeqZero_Strict(a) == IsNumeric(a) /\ ~IsZero(a) /\ a.s = -1
\* a <= 0: false for NaN.
LeqZero(a) == IsNumeric(a) /\ (IsZero(a) \/ a.s = -1)

\* A minimum that ignores the limit.
MathMin_NoLimit(a, b) == a
\* Math.min(a, b): NaN if either is NaN or undefined; -0 is below 0.
MathMin(a, b) ==
  IF ~IsNumeric(a) \/ ~IsNumeric(b) THEN NaN
  ELSE IF Less(b, a) THEN b
  ELSE IF Less(a, b) THEN a
  ELSE IF IsZero(a) /\ IsZero(b) /\ b.s = -1 THEN b
  ELSE a

\* The distance between two readings in place of the clamped difference.
MathMax0_Distance(x) == IF x > 0 THEN x ELSE -x
\* The difference of two readings without the clamp at 0.
MathMax0_NoClamp(x) == x
\* Math.max(x, 0) on whole numbers.
MathMax0(x) == IF x > 0 THEN x ELSE 0


\* ------------------------------------------------------------- bands

TariffKey == {"residential", "nonResidential"}

\* An array element: a band object, or undefined (a hole reads as undefined).
\* A band object's missing property reads as undefined.
Band(l, r) == [obj |-> TRUE, limit |-> l, rate |-> r]
NoBand == [obj |-> FALSE, limit |-> Undefined, rate |-> Undefined]

DefaultRates ==
  [ residential |->
      << Band(Fin(50), Num(14878, 10000)),
         Band(Fin(250), Num(19, 10)),
         Band(Fin(300), Num(23, 10)),
         Band(Infinity, Num(25, 10)) >>,
    nonResidential |-> << Band(Infinity, Num(159, 100)) >> ]

\* An inserted band of limit 50.
NewBand_Fifty == Band(Fin(50), Fin(0))

\* The band addBandBeforeInfinity inserts.
NewBand == Band(Fin(100), Fin(0))

\* { ...current, ...updates }
Merge(current, updates) ==
  Band(IF updates.limit = Absent THEN current.limit ELSE updates.limit,
       IF updates.rate = Absent THEN current.rate ELSE updates.rate)

\* arr[index] = value on a copy of arr.
ArraySet(arr, index, value) ==
  IF index < 0 THEN arr
  ELSE [i \in 1..(IF index + 1 > Len(arr) THEN index + 1 ELSE Len(arr)) |->
          IF i = index + 1 THEN value
          ELSE IF i <= Len(arr) THEN arr[i] ELSE NoBand]

\* arr[index]
ArrayGet(arr, index) ==
  IF index >= 0 /\ index < Len(arr) THEN arr[index + 1] ELSE NoBand

\* arr.splice(start, 0, value) on a copy of arr.
SpliceInsert(arr, start, value) ==
  LET s == IF start < 0 THEN MathMax0(Len(arr) + start)
           ELSE IF start > Len(arr) THEN Len(arr) ELSE start
  IN  SubSeq(arr, 1, s) \o <<value>> \o SubSeq(arr, s + 1, Len(arr))

\* A splice that deletes the element after the one asked for.
SpliceRemove_Next(arr, index) ==
  SubSeq(arr, 1, index + 1) \o SubSeq(arr, index + 3, Len(arr))

\* arr.splice(index, 1) on a copy of arr, 0 <= index < arr.length.
SpliceRemove(arr, index) ==
  SubSeq(arr, 1, index) \o SubSeq(arr, index + 2, Len(arr))

UpdateBandArr(arr, index, updates) ==
  ArraySet(arr, index, Merge(ArrayGet(arr, index), updates))

\* addBand with arr.push instead of the splice before the last band.
AddBandArr_Append(arr) == Append(arr, NewBand)

\* addBand with the new band put first.
AddBandArr_First(arr) == <<NewBand>> \o arr

AddBandArr(arr) == SpliceInsert(arr, Len(arr) - 1, NewBand)

\* removeBand with the guard index <= lastIndex.
RemoveBandArr_LastIncluded(arr, index) ==
  LET lastIndex == Len(arr) - 1
  IN  IF index >= 0 /\ index <= lastIndex THEN SpliceRemove(arr, index) ELSE arr

RemoveBandArr(arr, index) ==
  LET lastIndex == Len(arr) - 1
  IN  IF index >= 0 /\ index < lastIndex THEN SpliceRemove(arr, index) ELSE arr

\* ------------------------------------------------------- bill engine

\* The flat charges with the two classes exchanged.
serviceChargeFlat_Exchanged ==
  [residential |-> Num(1243, 100), nonResidential |-> Num(213, 100)]

serviceChargeFlat ==
  [residential |-> Num(213, 100), nonResidential |-> Num(1243, 100)]
\* The street light levy at the rate of the electrification levy.
streetLightRate_AsNel == Num(2, 100)
streetLightRate == Num(3, 100)
nelRate == Num(2, 100)
\* The NHIL rate of 2.5% alone, without GETFund.
nhilGetRate_NhilOnly == Num(25, 1000)
nhilGetRate == Num(5, 100)
\* A VAT rate of 12.5%.
vatRate_Lower == Num(125, 1000)
vatRate == Num(15, 100)

Null == [null |-> TRUE]

\* The loop without its break on remaining <= 0.
RECURSIVE Allocate_NoBreak(_, _, _, _, _)
Allocate_NoBreak(bands, i, remaining, energyCost, bandBreakdown) ==
  IF i > Len(bands)
  THEN [threw |-> FALSE, energyCost |-> energyCost,
        bandBreakdown |-> bandBreakdown]
  ELSE IF ~bands[i].obj
  THEN [threw |-> TRUE, energyCost |-> energyCost,
        bandBreakdown |-> bandBreakdown]
  ELSE LET band == bands[i]
           used == MathMin(remaining, band.limit)
           cost == Times(used, band.rate)
       IN  Allocate_NoBreak(bands, i + 1, Minus(remaining, used),
                            Plus(energyCost, cost),
                            Append(bandBreakdown,
                                   [used |-> used, rate |-> band.rate,
                                    cost |-> cost]))

\* The loop with energyCost = cost in place of energyCost += cost.
RECURSIVE Allocate_CostAssigned(_, _, _, _, _)
Allocate_CostAssigned(bands, i, remaining, energyCost, bandBreakdown) ==
  IF i > Len(bands) \/ LeqZero(remaining)
  THEN [threw |-> FALSE, energyCost |-> energyCost,
        bandBreakdown |-> bandBreakdown]
  ELSE IF ~bands[i].obj
  THEN [threw |-> TRUE, energyCost |-> energyCost,
        bandBreakdown |-> bandBreakdown]
  ELSE LET band == bands[i]
           used == MathMin(remaining, band.limit)
           cost == Times(used, band.rate)
       IN  Allocate_CostAssigned(bands, i + 1, Minus(remaining, used), cost,
                                 Append(bandBreakdown,
                                        [used |-> used, rate |-> band.rate,
                                         cost |-> cost]))

\* The for..of loop over the bands, from position i on: the loop ends at the
\* end of the array or when remaining <= 0; reading band.limit of an
\* undefined element throws a TypeError, which ends calculateBill.
RECURSIVE Allocate(_, _, _, _, _)
Allocate(bands, i, remaining, energyCost, bandBreakdown) ==
  IF i > Len(bands) \/ LeqZero(remaining)
  THEN [threw |-> FALSE, energyCost |-> energyCost,
        bandBreakdown |-> bandBreakdown]
  ELSE IF ~bands[i].obj
  THEN [threw |-> TRUE, energyCost |-> energyCost,
        bandBreakdown |-> bandBreakdown]
  ELSE LET band == bands[i]
           used == MathMin(remaining, band.limit)
           cost == Times(used, band.rate)
       IN  Allocate(bands, i + 1, Minus(remaining, used),
                    Plus(energyCost, cost),
                    Append(bandBreakdown,
                           [used |-> used, rate |-> band.rate, cost |-> cost]))

\* The sums with the adjustment reported but left out of payable.
Totals_AdjustmentLeftOut(alloc, units, balance, paid, adj, streetLight, natElectLevy, nhilGetFund, vat, serviceCharge) ==
  LET energyCost == alloc.energyCost
      totalBill == Plus(Plus(Plus(Plus(Plus(energyCost, streetLight),
                                       natElectLevy), nhilGetFund), vat),
                        serviceCharge)
      payable == Minus(Plus(totalBill, Fin(balance)), Fin(paid))
  IN  [threw |-> alloc.threw,
       value |->
         [units |-> Fin(units),
          bandBreakdown |-> alloc.bandBreakdown,
          energyCost |-> energyCost,
          serviceCharge |-> serviceCharge,
          natElectLevy |-> natElectLevy,
          streetLight |-> streetLight,
          nhilGetFund |-> nhilGetFund,
          vat |-> vat,
          totalBill |-> totalBill,
          adjustment |-> Fin(adj),
          payable |-> payable]]

\* totalBill and payable, each summed from left to right, and the object
\* handed to setResults.
Totals(alloc, units, balance, paid, adj, streetLight, natElectLevy, nhilGetFund, vat, serviceCharge) ==
  LET energyCost == alloc.energyCost
      totalBill == Plus(Plus(Plus(Plus(Plus(energyCost, streetLight),
                                       natElectLevy), nhilGetFund), vat),
                        serviceCharge)
      payable == Plus(Minus(Plus(totalBill, Fin(balance)), Fin(paid)), Fin(adj))
  IN  [threw |-> alloc.threw,
       value |->
         [units |-> Fin(units),
          bandBreakdown |-> alloc.bandBreakdown,
          energyCost |-> energyCost,
          serviceCharge |-> serviceCharge,
          natElectLevy |-> natElectLevy,
          streetLight |-> streetLight,
          nhilGetFund |-> nhilGetFund,
          vat |-> vat,
          totalBill |-> totalBill,
          adjustment |-> Fin(adj),
          payable |-> payable]]

\* The levies, the VAT and the service charge on the energy cost the loop
\* has left in alloc.
Charges(type, alloc, units, days, balance, paid, adj) ==
  LET energyCost == alloc.energyCost
      streetLight == Times(energyCost, streetLightRate)
      natElectLevy == Times(energyCost, nelRate)
      nhilGetFund == IF type = "nonResidential"
                     THEN Times(energyCost, nhilGetRate) ELSE Fin(0)
      vatBase == IF type = "nonResidential"
                 THEN Plus(Plus(Plus(energyCost, streetLight), natElectLevy),
                           nhilGetFund)
                 ELSE Fin(0)
      vat == IF type = "nonResidential" THEN Times(vatBase, vatRate) ELSE Fin(0)
      serviceCharge == Times(serviceChargeFlat[type], Num(days, 31))
  IN  Totals(alloc, units, balance, paid, adj, streetLight, natElectLevy,
             nhilGetFund, vat, serviceCharge)

\* The value calculateBill hands to setResults, or the error it throws: the
\* loop over the bands of the class, then the charges on its energy cost
\* with days, balance, paid and adj as quickMode leaves them.
Bill(schedule, type, quick, prev, curr, billDays, prevBal, pay, adjust) ==
  Charges(type,
          Allocate(schedule[type], 1, Fin(MathMax0(curr - prev)), Fin(0), <<>>),
          MathMax0(curr - prev),
          IF quick THEN 31 ELSE billDays,
          IF quick THEN 0 ELSE prevBal,
          IF quick THEN 0 ELSE pay,
          IF quick THEN 0 ELSE adjust)

\* ------------------------------------- the variant under src/pages

PagesInitialRates ==
  [ residential |->
      << Band(Fin(50), Num(14878, 10000)),
         Band(Fin(250), Num(19, 10)),
         Band(Fin(300), Num(23, 10)),
         Band(Infinity, Num(25, 10)) >>,
    nonResidential |-> << Band(Infinity, Num(159, 100)) >> ]

PagesServiceChargeFlat ==
  [residential |-> Num(213, 100), nonResidential |-> Num(1243, 100)]
PagesStreetLightRate == Num(3, 100)
PagesNelRate == Num(2, 100)
PagesNhilGetRate == Num(5, 100)
PagesVatRate == Num(15, 100)

\* The for..of loop of the variant's calculateBill.
RECURSIVE PagesAllocate(_, _, _, _, _)
PagesAllocate(bands, i, remaining, energyCost, bandBreakdown) ==
  IF i > Len(bands) \/ LeqZero(remaining)
  THEN [threw |-> FALSE, energyCost |-> energyCost,
        bandBreakdown |-> bandBreakdown]
  ELSE IF ~bands[i].obj
  THEN [threw |-> TRUE, energyCost |-> energyCost,
        bandBreakdown |-> bandBreakdown]
  ELSE LET band == bands[i]
           used == MathMin(remaining, band.limit)
           cost == Times(used, band.rate)
       IN  PagesAllocate(bands, i + 1, Minus(remaining, used),
                         Plus(energyCost, cost),
                         Append(bandBreakdown,
                                [used |-> used, rate |-> band.rate,
                                 cost |-> cost]))

\* The value the variant's calculateBill hands to setResults, or the error
\* it throws. The variant has no adjustment.
PagesBill(schedule, type, quick, prev, curr, billDays, prevBal, pay) ==
  LET units == MathMax0(curr - prev)
      alloc == PagesAllocate(schedule[type], 1, Fin(units), Fin(0), <<>>)
      energyCost == alloc.energyCost
      days == IF quick THEN 31 ELSE billDays
      balance == IF quick THEN 0 ELSE prevBal
      paid == IF quick THEN 0 ELSE pay
      streetLight == Times(energyCost, PagesStreetLightRate)
      natElectLevy == Times(energyCost, PagesNelRate)
      nhilGetFund == IF type = "nonResidential"
                     THEN Times(energyCost, PagesNhilGetRate) ELSE Fin(0)
      vatBase == IF type = "nonResidential"
                 THEN Plus(Plus(Plus(energyCost, streetLight), natElectLevy),
                           nhilGetFund)
                 ELSE Fin(0)
      vat == IF type = "nonResidential"
             THEN Times(vatBase, PagesVatRate) ELSE Fin(0)
      serviceCharge == Times(PagesServiceChargeFlat[type], Num(days, 31))
      totalBill == Plus(Plus(Plus(Plus(Plus(energyCost, streetLight),
                                       natElectLevy), nhilGetFund), vat),
                        serviceCharge)
      payable == Minus(Plus(totalBill, Fin(balance)), Fin(paid))
  IN  [threw |-> alloc.threw,
       value |->
         [units |-> Fin(units),
          bandBreakdown |-> alloc.bandBreakdown,
          energyCost |-> energyCost,
          serviceCharge |-> serviceCharge,
          natElectLevy |-> natElectLevy,
          streetLight |-> streetLight,
          nhilGetFund |-> nhilGetFund,
          vat |-> vat,
          totalBill |-> totalBill,
          payable |-> payable]]

\* The setRates updaters of the variant's updateBand, addBandBeforeInfinity
\* and removeBand, on the array of the class.
PagesUpdateBandArr(arr, index, updates) ==
  ArraySet(arr, index, Merge(ArrayGet(arr, index), updates))

PagesAddBandArr(arr) ==
  LET infIndex == Len(arr) - 1
  IN  SpliceInsert(arr, infIndex, Band(Fin(100), Fin(0)))

PagesRemoveBandArr(arr, index) ==
  LET lastIndex == Len(arr) - 1
  IN  IF index >= 0 /\ index < lastIndex THEN SpliceRemove(arr, index) ELSE arr

\* ------------------------------------------------------------ strings

\* A string is the sequence of its characters.
DigitChars == <<"0", "1", "2", "3", "4", "5", "6", "7", "8", "9">>
TrueText == <<"t", "r", "u", "e">>
FalseText == <<"f", "a", "l", "s", "e">>

RECURSIVE Digits(_)
Digits(n) ==
  IF n < 10 THEN <<DigitChars[n + 1]>>
  ELSE Append(Digits(n \div 10), DigitChars[(n % 10) + 1])

\* String(n) of a whole number n.
String(n) == IF n < 0 THEN <<"-">> \o Digits(-n) ELSE Digits(n)

IsDigit(c) == \E d \in 1..10 : DigitChars[d] = c
DigitValue(c) == (CHOOSE d \in 1..10 : DigitChars[d] = c) - 1

RECURSIVE Numeral(_)
Numeral(s) ==
  IF s = <<>> THEN 0
  ELSE 10 * Numeral(SubSeq(s, 1, Len(s) - 1)) + DigitValue(s[Len(s)])

\* x, with the sign changed when a minus sign stands before the numeral.
Signed(minus, x) == IF minus THEN Neg(x) ELSE x

\* Number(s) of a string s: 0 for the empty string, the double nearest to a
\* decimal numeral (digits with at most one point among them, with or
\* without a sign), and NaN for a string with any other character in it or
\* without a digit.  (Strings with white space, an exponent, a radix prefix
\* or the word Infinity, and numerals of more than nine digits, are not among
\* the strings used.)
Number(s) ==
  LET signed == s # <<>> /\ s[1] \in {"-", "+"}
      body == IF signed THEN Tail(s) ELSE s
      points == {i \in 1..Len(body) : body[i] = "."}
      point == IF points = {} THEN Len(body) + 1 ELSE CHOOSE i \in points : TRUE
      digits == SubSeq(body, 1, point - 1) \o SubSeq(body, point + 1, Len(body))
      value == Num(Numeral(digits), 10 ^ (Len(body) - point + 1 - Cardinality(points)))
  IN  IF s = <<>> THEN Fin(0)
      ELSE IF /\ Cardinality(points) <= 1
              /\ digits # <<>>
              /\ \A i \in 1..Len(digits) : IsDigit(digits[i])
      THEN Signed(s[1] = "-", value)
      ELSE NaN

\* The whole number a double x is, for a whole x of magnitude below 2^31.
Whole(x) ==
  LET p == IF x.e >= 0 THEN ShiftLeft4(x.m, x.e) ELSE ShiftRight4(x.m, -x.e)
  IN  x.s * (p[1] + p[2] * B + p[3] * B * B)

\* ------------------------------------------------------------- state

VARIABLES
  initialRates,      \* the module-level default schedule object
  rates,             \* the schedule in component state
  prevReading, currReading, billingDays, prevBalance, payments, adjustment,
  tariffType, quickMode, rememberReadings,
  results,           \* the last bill, or Null
  savedPrevReading, savedCurrReading,
  storage,           \* localStorage: the four ecg_ items
  thrown,            \* whether the last handler ended in an uncaught error
  lastOp,            \* the last handler that ran, with its class and index
  nUpdates,          \* updateBand calls made so far
  effectPending      \* whether the mount effect of this page load is still to run

inputs == <<prevReading, currReading, billingDays, prevBalance, payments,
            adjustment, tariffType, quickMode, rememberReadings>>
outputs == <<results, savedPrevReading, savedCurrReading, storage>>
vars == <<initialRates, rates, inputs, outputs, thrown, lastOp, nUpdates,
          effectPending>>

Op(name, type, index) == [name |-> name, type |-> type, index |-> index]
OpOf(name) == Op(name, "residential", 0)

\* An item of localStorage: Null while the key is not there, else its text.
Text(s) == [text |-> s]

EmptyStorage ==
  [ecg_prev_reading |-> Null, ecg_curr_reading |-> Null,
   ecg_adjustment |-> Null, ecg_remember |-> Null]

\* What localStorage can hold when the component mounts: nothing, what an
\* earlier calculation wrote with remembering on or off, a current reading
\* alone, and items that are no numerals.
StoredVals ==
  { EmptyStorage,
    [ecg_prev_reading |-> Text(String(100)),
     ecg_curr_reading |-> Text(String(220)),
     ecg_adjustment |-> Text(String(5)), ecg_remember |-> Text(TrueText)],
    [ecg_prev_reading |-> Text(String(100)),
     ecg_curr_reading |-> Text(String(220)),
     ecg_adjustment |-> Text(String(-5)), ecg_remember |-> Text(FalseText)],
    [ecg_prev_reading |-> Null, ecg_curr_reading |-> Text(String(220)),
     ecg_adjustment |-> Text(<<>>), ecg_remember |-> Null],
    [ecg_prev_reading |-> Text(<<"a", "b", "c">>),
     ecg_curr_reading |-> Text(<<"-">>),
     ecg_adjustment |-> Text(<<"5", "x">>), ecg_remember |-> Text(<<"n", "o">>)] }

\* Number(item) unless it is NaN, for a saved reading.
Numeric(x, otherwise) == IF x = NaN THEN otherwise ELSE x

\* Number(item) unless it is NaN, for the adjustment field.
NumericWhole(x, otherwise) == IF x = NaN THEN otherwise ELSE Whole(x)

\* The component as its first render leaves it, with stored in localStorage:
\* every useState holds its initialiser.  pending tells whether the mount
\* effect of this render is still to run.
Rendered(stored, pending) ==
  /\ initialRates = DefaultRates
  /\ rates = initialRates
  /\ prevReading = 0 /\ currReading = 0 /\ billingDays = 31
  /\ prevBalance = 0 /\ payments = 0 /\ adjustment = 0
  /\ tariffType = "residential" /\ quickMode = TRUE
  /\ rememberReadings = TRUE
  /\ results = Null
  /\ savedPrevReading = Null /\ savedCurrReading = Null
  /\ storage = stored
  /\ thrown = FALSE
  /\ lastOp = OpOf("init")
  /\ nUpdates = 0
  /\ effectPending = pending

\* The first render has returned and the mount effect has not run yet.
Init == \E stored \in StoredVals : Rendered(stored, TRUE)

\* The component on a first visit, once the mount effect has run and found
\* nothing stored.
InitFirstVisit == Rendered(EmptyStorage, FALSE)

\* The page is loaded again: the component renders anew, every useState at
\* its initialiser, and the mount effect of the new render is to run.
load ==
  /\ rates' = initialRates
  /\ prevReading' = 0 /\ currReading' = 0 /\ billingDays' = 31
  /\ prevBalance' = 0 /\ payments' = 0 /\ adjustment' = 0
  /\ tariffType' = "residential" /\ quickMode' = TRUE
  /\ rememberReadings' = TRUE
  /\ results' = Null
  /\ savedPrevReading' = Null /\ savedCurrReading' = Null
  /\ thrown' = FALSE
  /\ lastOp' = OpOf("load")
  /\ effectPending' = TRUE
  /\ UNCHANGED <<initialRates, storage, nUpdates>>

\* The mount effect, a callback of its own after the first render: the saved
\* readings and the adjustment are set from the items that are there and are
\* numerals, and remembering is switched off by the item "false"; everything
\* else stays as the handlers that ran since the render left it.  When
\* localStorage cannot be read the first getItem throws and the effect
\* changes nothing.
mountEffect(readable) ==
  /\ effectPending
  /\ effectPending' = FALSE
  /\ savedPrevReading' =
       IF readable /\ storage.ecg_prev_reading # Null
       THEN Numeric(Number(storage.ecg_prev_reading.text), savedPrevReading)
       ELSE savedPrevReading
  /\ savedCurrReading' =
       IF readable /\ storage.ecg_curr_reading # Null
       THEN Numeric(Number(storage.ecg_curr_reading.text), savedCurrReading)
       ELSE savedCurrReading
  /\ adjustment' =
       IF readable /\ storage.ecg_adjustment # Null
       THEN NumericWhole(Number(storage.ecg_adjustment.text), adjustment)
       ELSE adjustment
  /\ rememberReadings' =
       IF readable /\ storage.ecg_remember = Text(FalseText)
       THEN FALSE ELSE rememberReadings
  /\ thrown' = FALSE
  /\ lastOp' = OpOf("mountEffect")
  /\ UNCHANGED <<initialRates, rates, prevReading, currReading, billingDays,
                 prevBalance, payments, tariffType, quickMode, results,
                 storage, nUpdates>>

\* ------------------------------------------------------ schedule edits

\* The values an edit field hands to updateBand: a limit or a rate.
LimitVals == {Fin(10)}
RateVals == {Fin(2)}
UpdateVals ==
  {[limit |-> l, rate |-> Absent] : l \in LimitVals}
    \cup {[limit |-> Absent, rate |-> r] : r \in RateVals}

\* The indices tried on an array: one below 0, every position, and the
\* first past the end.
Indices(arr) == -1..Len(arr)

\* An edit that gives both classes the edited array.
Edited_BothClasses(name, type, index, arr) ==
  /\ rates' = [t \in TariffKey |-> arr]
  /\ lastOp' = Op(name, type, index)
  /\ thrown' = FALSE
  /\ UNCHANGED <<initialRates, inputs, outputs, effectPending>>

\* An edit that writes through the array it was given: while the class's
\* array is still the one initialRates holds, the default changes with it.
Edited_InPlace(name, type, index, arr) ==
  /\ rates' = [rates EXCEPT ![type] = arr]
  /\ initialRates' = IF rates[type] = initialRates[type]
                      THEN [initialRates EXCEPT ![type] = arr]
                      ELSE initialRates
  /\ lastOp' = Op(name, type, index)
  /\ thrown' = FALSE
  /\ UNCHANGED <<inputs, outputs, effectPending>>

Edited(name, type, index, arr) ==
  /\ rates' = [rates EXCEPT ![type] = arr]
  /\ lastOp' = Op(name, type, index)
  /\ thrown' = FALSE
  /\ UNCHANGED <<initialRates, inputs, outputs, effectPending>>

updateBand(type, index, updates) ==
  /\ nUpdates' = nUpdates + 1
  /\ Edited("updateBand", type, index,
            UpdateBandArr(rates[type], index, updates))

addBandBeforeInfinity(type) ==
  /\ UNCHANGED nUpdates
  /\ Edited("addBand", type, 0, AddBandArr(rates[type]))

removeBand(type, index) ==
  /\ UNCHANGED nUpdates
  /\ Edited("removeBand", type, index, RemoveBandArr(rates[type], index))

\* A reset of the selected class only.
resetRates_SelectedClassOnly ==
  /\ rates' = [rates EXCEPT ![tariffType] = initialRates[tariffType]]
  /\ lastOp' = OpOf("resetRates")
  /\ thrown' = FALSE
  /\ UNCHANGED <<initialRates, inputs, outputs, nUpdates,
                 effectPending>>

resetRates ==
  /\ rates' = initialRates
  /\ lastOp' = OpOf("resetRates")
  /\ thrown' = FALSE
  /\ UNCHANGED <<initialRates, inputs, outputs, nUpdates,
                 effectPending>>

\* ----------------------------------------------------- input handlers

\* The values the form fields take.
ReadingVals == {0, 100, 220, 500}
DayVals == {31, 62}
BalanceVals == {0, 50}
PaymentVals == {0, 20}
AdjustmentVals == {0, 5, -5}

Handled(name) ==
  /\ lastOp' = OpOf(name)
  /\ thrown' = FALSE
  /\ UNCHANGED <<initialRates, rates, outputs, nUpdates,
                 effectPending>>

setPrevReading(v) ==
  /\ prevReading' = v
  /\ Handled("setPrevReading")
  /\ UNCHANGED <<currReading, billingDays, prevBalance, payments, adjustment,
                 tariffType, quickMode, rememberReadings>>

\* The button "Use saved", shown while the previous reading is 0 and a
\* previous reading is saved.
useSavedPrevReading ==
  /\ prevReading = 0
  /\ savedPrevReading # Null
  /\ prevReading' = Whole(savedPrevReading)
  /\ Handled("useSavedPrevReading")
  /\ UNCHANGED <<currReading, billingDays, prevBalance, payments, adjustment,
                 tariffType, quickMode, rememberReadings>>

\* The button "Use last current", shown while the previous reading is 0, no
\* previous reading is saved and a current reading is.
useSavedCurrReading ==
  /\ prevReading = 0
  /\ savedPrevReading = Null
  /\ savedCurrReading # Null
  /\ prevReading' = Whole(savedCurrReading)
  /\ Handled("useSavedCurrReading")
  /\ UNCHANGED <<currReading, billingDays, prevBalance, payments, adjustment,
                 tariffType, quickMode, rememberReadings>>

setCurrReading(v) ==
  /\ currReading' = v
  /\ Handled("setCurrReading")
  /\ UNCHANGED <<prevReading, billingDays, prevBalance, payments, adjustment,
                 tariffType, quickMode, rememberReadings>>

setBillingDays(v) ==
  /\ billingDays' = v
  /\ Handled("setBillingDays")
  /\ UNCHANGED <<prevReading, currReading, prevBalance, payments, adjustment,
                 tariffType, quickMode, rememberReadings>>

setPrevBalance(v) ==
  /\ prevBalance' = v
  /\ Handled("setPrevBalance")
  /\ UNCHANGED <<prevReading, currReading, billingDays, payments, adjustment,
                 tariffType, quickMode, rememberReadings>>

setPayments(v) ==
  /\ payments' = v
  /\ Handled("setPayments")
  /\ UNCHANGED <<prevReading, currReading, billingDays, prevBalance,
                 adjustment, tariffType, quickMode, rememberReadings>>

setAdjustment(v) ==
  /\ adjustment' = v
  /\ Handled("setAdjustment")
  /\ UNCHANGED <<prevReading, currReading, billingDays, prevBalance, payments,
                 tariffType, quickMode, rememberReadings>>

\* A class selector that also drops the bill on display.
setTariffType_ResultsDropped(v) ==
  /\ tariffType' = v
  /\ results' = Null
  /\ lastOp' = OpOf("setTariffType")
  /\ thrown' = FALSE
  /\ UNCHANGED <<initialRates, rates, nUpdates, savedPrevReading,
                 savedCurrReading, storage, effectPending>>
  /\ UNCHANGED <<prevReading, currReading, billingDays, prevBalance, payments,
                 adjustment, quickMode, rememberReadings>>

setTariffType(v) ==
  /\ tariffType' = v
  /\ Handled("setTariffType")
  /\ UNCHANGED <<prevReading, currReading, billingDays, prevBalance, payments,
                 adjustment, quickMode, rememberReadings>>

toggleQuickMode ==
  /\ quickMode' = ~quickMode
  /\ Handled("toggleQuickMode")
  /\ UNCHANGED <<prevReading, currReading, billingDays, prevBalance, payments,
                 adjustment, tariffType, rememberReadings>>

toggleRememberReadings ==
  /\ rememberReadings' = ~rememberReadings
  /\ Handled("toggleRememberReadings")
  /\ UNCHANGED <<prevReading, currReading, billingDays, prevBalance, payments,
                 adjustment, tariffType, quickMode>>

\* The Clear button.
clear ==
  /\ prevReading' = 0 /\ currReading' = 0 /\ billingDays' = 31
  /\ prevBalance' = 0 /\ payments' = 0 /\ adjustment' = 0
  /\ results' = Null
  /\ lastOp' = OpOf("clear")
  /\ thrown' = FALSE
  /\ UNCHANGED <<initialRates, rates, tariffType, quickMode, rememberReadings,
                 savedPrevReading, savedCurrReading, storage, nUpdates,
                 effectPending>>

\* How many localStorage.setItem calls of one calculation can return before
\* one throws: 4 when none does.
Written == 0..4

\* The try block after setResults: with remembering on, the three readings
\* and "true" are written in turn and then the saved readings are set; with
\* remembering off, "false" is written.  A setItem that throws ends the block:
\* the items written before it stay and the saved readings are not set.
Remembered(written) ==
  IF rememberReadings
  THEN /\ storage' =
            [ecg_prev_reading |->
               IF written >= 1 THEN Text(String(prevReading))
               ELSE storage.ecg_prev_reading,
             ecg_curr_reading |->
               IF written >= 2 THEN Text(String(currReading))
               ELSE storage.ecg_curr_reading,
             ecg_adjustment |->
               IF written >= 3 THEN Text(String(adjustment))
               ELSE storage.ecg_adjustment,
             ecg_remember |->
               IF written >= 4 THEN Text(TrueText) ELSE storage.ecg_remember]
       /\ IF written >= 4
          THEN /\ savedPrevReading' = Fin(prevReading)
               /\ savedCurrReading' = Fin(currReading)
          ELSE UNCHANGED <<savedPrevReading, savedCurrReading>>
  ELSE /\ storage' = IF written >= 1
                     THEN [storage EXCEPT !.ecg_remember = Text(FalseText)]
                     ELSE storage
       /\ UNCHANGED <<savedPrevReading, savedCurrReading>>

\* calculateBill taking the reading saved by the calculation before it, when
\* there is one, as the previous reading.
calculateBill_FromSaved(outcomes) ==
  LET prev == IF savedCurrReading = Null THEN prevReading
              ELSE Whole(savedCurrReading)
      bill == Bill(rates, tariffType, quickMode, prev, currReading,
                   billingDays, prevBalance, payments, adjustment)
  IN  /\ lastOp' = OpOf("calculateBill")
      /\ UNCHANGED <<initialRates, rates, inputs, nUpdates,
                 effectPending>>
      /\ IF bill.threw
         THEN /\ thrown' = TRUE
              /\ UNCHANGED outputs
         ELSE /\ thrown' = FALSE
              /\ results' = bill.value
              /\ \E written \in outcomes : Remembered(written)

\* calculateBill without the quickMode overrides of days, balance, paid, adj.
calculateBill_DetailedAlways(outcomes) ==
  LET bill == Bill(rates, tariffType, FALSE, prevReading, currReading,
                   billingDays, prevBalance, payments, adjustment)
  IN  /\ lastOp' = OpOf("calculateBill")
      /\ UNCHANGED <<initialRates, rates, inputs, nUpdates,
                 effectPending>>
      /\ IF bill.threw
         THEN /\ thrown' = TRUE
              /\ UNCHANGED outputs
         ELSE /\ thrown' = FALSE
              /\ results' = bill.value
              /\ \E written \in outcomes : Remembered(written)

\* The Calculate button, with localStorage letting as many writes through as
\* one of outcomes says.  A TypeError thrown in the loop leaves the handler
\* before setResults and before the localStorage writes.
calculateBill(outcomes) ==
  LET bill == Bill(rates, tariffType, quickMode, prevReading, currReading,
                   billingDays, prevBalance, payments, adjustment)
  IN  /\ lastOp' = OpOf("calculateBill")
      /\ UNCHANGED <<initialRates, rates, inputs, nUpdates,
                 effectPending>>
      /\ IF bill.threw
         THEN /\ thrown' = TRUE
              /\ UNCHANGED outputs
         ELSE /\ thrown' = FALSE
              /\ results' = bill.value
              /\ \E written \in outcomes : Remembered(written)


\* ------------------------------------------------------ specifications

\* The edit handlers, with updateBand called MaxUpdates times at most and a
\* class grown by MaxAdded bands at most.
NextEdit ==
  \/ /\ nUpdates < MaxUpdates
     /\ \E type \in TariffKey :
          \E index \in Indices(rates[type]) \cup {Len(rates[type]) + 1},
             updates \in UpdateVals :
            updateBand(type, index, updates)
  \/ \E type \in TariffKey :
       /\ Len(rates[type]) < Len(DefaultRates[type]) + MaxAdded
       /\ addBandBeforeInfinity(type)
  \/ \E type \in TariffKey :
       \E index \in Indices(rates[type]) : removeBand(type, index)
  \/ resetRates

\* The schedule editor alone.
SpecEdit == InitFirstVisit /\ [][NextEdit]_vars

NextStructural ==
  \/ \E type \in TariffKey :
       /\ Len(rates[type]) < Len(DefaultRates[type]) + MaxAdded
       /\ addBandBeforeInfinity(type)
  \/ \E type \in TariffKey :
       \E index \in Indices(rates[type]) : removeBand(type, index)
  \/ resetRates

\* The schedule editor without updateBand.
SpecStructural == InitFirstVisit /\ [][NextStructural]_vars

NextInput ==
  \/ \E v \in ReadingVals : setPrevReading(v)
  \/ useSavedPrevReading
  \/ useSavedCurrReading
  \/ \E v \in ReadingVals : setCurrReading(v)
  \/ \E v \in DayVals : setBillingDays(v)
  \/ \E v \in BalanceVals : setPrevBalance(v)
  \/ \E v \in PaymentVals : setPayments(v)
  \/ \E v \in AdjustmentVals : setAdjustment(v)
  \/ \E v \in TariffKey : setTariffType(v)
  \/ toggleQuickMode
  \/ toggleRememberReadings

\* The whole component.
Next ==
  \/ NextEdit
  \/ NextInput
  \/ calculateBill(Written)
  \/ clear
  \/ load
  \/ \E readable \in BOOLEAN : mountEffect(readable)

Spec == Init /\ [][Next]_vars

\* The bill engine on its own: a schedule the editor can produce for the
\* selected class (finite non-negative limits, the unbounded band last) and a
\* filled-in form, then Calculate and Clear.
BandDomain ==
  {Band(Fin(0), Num(19, 10)), Band(Fin(50), Fin(0)),
   Band(Fin(50), Num(19, 10)), Band(Num(501, 10), Num(19, 10))}
LastRateDomain == {Fin(0), Num(19, 10)}

RECURSIVE FiniteBands(_)
FiniteBands(n) ==
  IF n = 0 THEN {<<>>}
  ELSE {Append(s, b) : s \in FiniteBands(n - 1), b \in BandDomain}

DrawnSchedules ==
  {DefaultRates[t] : t \in TariffKey}
    \cup {Append(s, Band(Infinity, r)) :
            s \in UNION {FiniteBands(n) : n \in 0..(MaxDrawn - 1)},
            r \in LastRateDomain}

\* Mode, billing days, previous balance, payments and adjustment as filled in.
FormVals ==
  {<<TRUE, 31, 0, 0, 0>>, <<TRUE, 62, 50, 20, -5>>,
   <<FALSE, 31, 50, 20, 5>>, <<FALSE, 62, 0, 0, -5>>}

InitBill ==
  /\ initialRates = DefaultRates
  /\ tariffType \in TariffKey
  /\ \E s \in DrawnSchedules : rates = [initialRates EXCEPT ![tariffType] = s]
  /\ prevReading \in {0, 100} /\ currReading \in {0, 220, 500}
  /\ \E f \in FormVals :
       /\ quickMode = f[1]
       /\ billingDays = f[2] /\ prevBalance = f[3]
       /\ payments = f[4] /\ adjustment = f[5]
  /\ rememberReadings = TRUE
  /\ results = Null
  /\ savedPrevReading = Null /\ savedCurrReading = Null
  /\ storage = EmptyStorage
  /\ thrown = FALSE
  /\ lastOp = OpOf("init")
  /\ nUpdates = 0
  /\ effectPending = FALSE

\* Calculate with a localStorage that takes every write, and Clear.
NextBill == calculateBill({4}) \/ clear

SpecBill == InitBill /\ [][NextBill]_vars

\* A session at the form, begun with anything in localStorage, on a
\* localStorage that takes every write of a calculation or none: the mount
\* effect runs, the current reading is entered, a saved reading is taken
\* over, the class is changed, a band is added to the selected class, the
\* schedule is reset, Calculate and Clear are pressed and the page is loaded
\* again, in any order.
NextSession ==
  \/ \E readable \in BOOLEAN : mountEffect(readable)
  \/ setCurrReading(220)
  \/ useSavedPrevReading
  \/ useSavedCurrReading
  \/ setTariffType("nonResidential")
  \/ /\ Len(rates[tariffType]) < Len(DefaultRates[tariffType]) + MaxAdded
     /\ addBandBeforeInfinity(tariffType)
  \/ resetRates
  \/ calculateBill({0, 4})
  \/ clear
  \/ load

SpecSession == Init /\ [][NextSession]_vars

\* The rate editor at work on the non-residential class, the class of one
\* band: updateBand at any index, addBand, removeBand, and reset.
NextVariants ==
  \/ /\ nUpdates < MaxUpdates
     /\ \E index \in Indices(rates["nonResidential"])
                       \cup {Len(rates["nonResidential"]) + 1},
           updates \in UpdateVals :
          updateBand("nonResidential", index, updates)
  \/ /\ Len(rates["nonResidential"])
          < Len(DefaultRates["nonResidential"]) + MaxAdded
     /\ addBandBeforeInfinity("nonResidential")
  \/ \E index \in Indices(rates["nonResidential"]) :
       removeBand("nonResidential", index)
  \/ resetRates

SpecVariants == InitFirstVisit /\ [][NextVariants]_vars

\* A bill and what follows it, in any order: the current reading and the
\* adjustment are entered, the mode and the class are changed, the first band
\* of the non-residential class is given a rate or removed, a band is added
\* to that class, the schedule is reset, and Calculate and Clear are pressed.
NextFrame ==
  \/ setCurrReading(220)
  \/ setAdjustment(5)
  \/ toggleQuickMode
  \/ \E v \in TariffKey : setTariffType(v)
  \/ /\ nUpdates < MaxUpdates
     /\ \E r \in RateVals :
          updateBand("nonResidential", 0, [limit |-> Absent, rate |-> r])
  \/ /\ Len(rates["nonResidential"])
          < Len(DefaultRates["nonResidential"]) + MaxAdded
     /\ addBandBeforeInfinity("nonResidential")
  \/ removeBand("nonResidential", 0)
  \/ resetRates
  \/ calculateBill({4})
  \/ clear

SpecFrame == InitFirstVisit /\ [][NextFrame]_vars

\* ------------------------------------------------------------- claims

Classes == TariffKey
Last(arr) == arr[Len(arr)]
Unbounded(arr) == {i \in 1..Len(arr) : arr[i].limit = Infinity}
\* The unbounded band is there, once, and last.
UnboundedLast(arr) ==
  /\ Len(arr) >= 1
  /\ Cardinality(Unbounded(arr)) = 1
  /\ Last(arr).limit = Infinity

\* C1: in every state the editor reaches from the default schedule by
\* updateBand, addBand, removeBand and reset calls with any class, index and
\* field values, each class has at least one band and exactly one unbounded
\* band, which is the last.
C1_UnboundedBandLastAndUnique ==
  \A type \in Classes : UnboundedLast(rates[type])

\* C2: removeBand never leaves a class without bands and never removes the
\* last band; with an index below 0, equal to the last index or past the
\* end it leaves the class's bands as they were.
C2_RemoveBandKeepsLastBand ==
  [][\A type \in Classes : \A index \in -1..(Len(rates[type]) + 1) :
       removeBand(type, index) =>
         /\ Len(rates'[type]) >= 1
         /\ Last(rates'[type]) = Last(rates[type])
         /\ (index < 0 \/ index >= Len(rates[type]) - 1)
              => rates'[type] = rates[type]]_vars

\* C2 witness: removeBand was called on a class's only band, the unbounded
\* one, with the last index, and the band is still there.
C2_Witness ==
  /\ lastOp.name = "removeBand"
  /\ Len(rates[lastOp.type]) = 1
  /\ lastOp.index = 0
  /\ UnboundedLast(rates[lastOp.type])

\* C3: updateBand with an index below 0 or at or past the number of bands
\* leaves the schedule as it was.
C3_UpdateBandOutOfRangeNoOp ==
  [][\A type \in Classes : \A index \in -1..(Len(rates[type]) + 1),
                              updates \in UpdateVals :
       (updateBand(type, index, updates)
          /\ (index < 0 \/ index >= Len(rates[type])))
         => rates' = rates]_vars

\* C4: in every state the editor reaches from the default schedule, with
\* whatever indices, calculateBill completes for each class and any readings,
\* and every entry of its band breakdown carries a rate.
C4_CalculateBillNeverFails ==
  \A type \in Classes, curr \in ReadingVals :
    LET bill == Bill(rates, type, quickMode, 0, curr, billingDays,
                     prevBalance, payments, adjustment)
        breakdown == bill.value.bandBreakdown
    IN  /\ ~bill.threw
        /\ \A i \in 1..Len(breakdown) : breakdown[i].rate # Undefined

\* A schedule is well formed: band objects with finite limits >= 0, then the
\* unbounded band.
WellFormed(arr) ==
  /\ Len(arr) >= 1
  /\ \A i \in 1..Len(arr) : arr[i].obj
  /\ \A i \in 1..(Len(arr) - 1) : IsNum(arr[i].limit) /\ ~Less(arr[i].limit, Fin(0))
  /\ Last(arr).limit = Infinity

RECURSIVE SumUsed(_)
SumUsed(breakdown) ==
  IF breakdown = <<>> THEN Fin(0)
  ELSE Plus(SumUsed(SubSeq(breakdown, 1, Len(breakdown) - 1)),
            Last(breakdown).used)

\* a <= b for a finite a and a limit b.
AtMost(a, b) == b = Infinity \/ (IsNum(a) /\ IsNum(b) /\ ~Less(b, a))

\* A finite double that is a whole number.
IsWhole(x) ==
  IsNum(x) /\ (IsZero(x) \/ x.e >= 0 \/ (x.e > -53 /\ LowZero(x.m, -x.e)))

\* Every finite limit of the schedule is a whole number.
WholeLimits(arr) == \A i \in 1..(Len(arr) - 1) : IsWhole(arr[i].limit)

\* One part in 10^9.
Tolerance == Num(1, 1000000000)

\* x and y are less than the tolerance apart.
Near(x, y) ==
  /\ Less(Minus(x, y), Tolerance)
  /\ Less(Minus(y, x), Tolerance)

\* C5 as claimed: for a well-formed schedule the used units of the breakdown
\* add up to unitsConsumed, and the breakdown's last entry, if any, has
\* used > 0.
C5_UsedSumsToUnits ==
  (results # Null /\ WellFormed(rates[tariffType])) =>
    /\ results.units = Fin(MathMax0(currReading - prevReading))
    /\ SumUsed(results.bandBreakdown) = results.units
    /\ results.bandBreakdown # <<>> =>
         Less(Fin(0), Last(results.bandBreakdown).used)

\* C5 as amended: for a well-formed schedule the used units of the
\* breakdown, added in band order, give unitsConsumed exactly when the limits
\* are whole numbers and to within rounding when they are not, and the
\* breakdown's last entry, if any, has used > 0.
C5_UsedSumsToUnitsRounded ==
  (results # Null /\ WellFormed(rates[tariffType])) =>
    /\ results.units = Fin(MathMax0(currReading - prevReading))
    /\ Near(SumUsed(results.bandBreakdown), results.units)
    /\ WholeLimits(rates[tariffType]) =>
         SumUsed(results.bandBreakdown) = results.units
    /\ results.bandBreakdown # <<>> =>
         Less(Fin(0), Last(results.bandBreakdown).used)

\* C5 witness: a bill for 400 units over two bands of 50.1 units and the
\* unbounded band, whose used units add up to a double other than 400.
C5_Witness ==
  /\ results # Null
  /\ WellFormed(rates[tariffType])
  /\ ~WholeLimits(rates[tariffType])
  /\ Len(results.bandBreakdown) = 3
  /\ results.bandBreakdown[1].used = Num(501, 10)
  /\ results.units = Fin(400)
  /\ SumUsed(results.bandBreakdown) # results.units

\* Limits strictly ascending, the unbounded band above all.
AscendingStrict(arr) ==
  \A i \in 1..(Len(arr) - 1) :
    /\ IsNum(arr[i].limit)
    /\ arr[i + 1].limit = Infinity \/
         (IsNum(arr[i + 1].limit) /\ Less(arr[i].limit, arr[i + 1].limit))

\* C6 as claimed: with ascending limits, the units given to bands 1..i
\* together never exceed the limit of band i.
C6_LimitIsCumulativeCeiling ==
  (results # Null /\ WellFormed(rates[tariffType])
     /\ AscendingStrict(rates[tariffType])) =>
    \A i \in 1..Len(results.bandBreakdown) :
      AtMost(SumUsed(SubSeq(results.bandBreakdown, 1, i)),
             rates[tariffType][i].limit)

\* C6 as amended: the limit is the width of the band itself; band i is given
\* at most limit_i units, whatever the bands before it took.
C6_LimitIsBandWidth ==
  (results # Null /\ WellFormed(rates[tariffType])) =>
    \A i \in 1..Len(results.bandBreakdown) :
      AtMost(results.bandBreakdown[i].used, rates[tariffType][i].limit)

\* C6 witness: ascending limits 50 and 250, and a bill that gives the second
\* band its full 250 units after the 50 of the first.
C6_Witness ==
  /\ results # Null
  /\ AscendingStrict(rates[tariffType])
  /\ Len(results.bandBreakdown) = 3
  /\ rates[tariffType][2].limit = Fin(250)
  /\ results.bandBreakdown[1].used = Fin(50)
  /\ results.bandBreakdown[2].used = Fin(250)

\* Limits in ascending order (equal limits allowed).
Ascending(arr) ==
  \A i \in 1..(Len(arr) - 1) : AtMost(arr[i].limit, arr[i + 1].limit)

\* C7 as claimed: addBand, removeBand and reset keep each class's bands in
\* ascending order of limit.
C7_LimitsAscending ==
  \A type \in Classes : Ascending(rates[type])

\* The bands of arr are default bands of the class in their default order,
\* then bands as addBand inserts them, then the class's unbounded band.
DefaultsThenAdded(type, arr) ==
  LET dflt == DefaultRates[type] IN
  /\ Len(arr) >= 1
  /\ Last(arr) = Last(dflt)
  /\ \E k \in 0..(Len(arr) - 1) :
       /\ \A i \in 1..k : \E j \in 1..(Len(dflt) - 1) : arr[i] = dflt[j]
       /\ AscendingStrict(SubSeq(arr, 1, k))
       /\ \A i \in (k + 1)..(Len(arr) - 1) : arr[i] = Band(Fin(100), Fin(0))

\* C7 as amended: addBand, removeBand and reset leave each class with its
\* remaining default bands in ascending order of limit, then the inserted
\* bands of limit 100, then the unbounded band.
C7_DefaultsAscendingThenAdded ==
  \A type \in Classes : DefaultsThenAdded(type, rates[type])

\* C7 witness: an inserted band of limit 100 right after the default band of
\* limit 300.
C7_Witness ==
  /\ lastOp.name = "addBand"
  /\ \E i \in 1..(Len(rates["residential"]) - 1) :
       /\ rates["residential"][i].limit = Fin(300)
       /\ rates["residential"][i + 1].limit = Fin(100)

\* C8: addBand on a class whose last band is its one unbounded band adds one
\* band, {limit 100, rate 0}, right before the last band, keeps the other
\* bands in place and leaves the unbounded band last and alone.
C8_AddBandBeforeUnbounded ==
  [][\A type \in Classes :
       (addBandBeforeInfinity(type) /\ UnboundedLast(rates[type])) =>
         LET old == rates[type]
             new == rates'[type]
         IN  /\ Len(new) = Len(old) + 1
             /\ new[Len(old)] = Band(Fin(100), Fin(0))
             /\ \A i \in 1..(Len(old) - 1) : new[i] = old[i]
             /\ Last(new) = Last(old)
             /\ UnboundedLast(new)]_vars

\* C8 witness: addBand has just put its band between two bands of a class
\* and the unbounded band.
C8_Witness ==
  /\ lastOp.name = "addBand"
  /\ Len(rates[lastOp.type]) = 4
  /\ rates[lastOp.type][3] = Band(Fin(100), Fin(0))
  /\ UnboundedLast(rates[lastOp.type])

\* C9: removeBand with 0 <= index < count - 1 deletes the band at index and
\* nothing else: the bands before it stay, the bands after it move up one.
C9_RemoveBandDeletesIndex ==
  [][\A type \in Classes : \A index \in 0..(Len(rates[type]) + 1) :
       (removeBand(type, index) /\ index < Len(rates[type]) - 1) =>
         LET old == rates[type]
             new == rates'[type]
         IN  /\ Len(new) = Len(old) - 1
             /\ \A i \in 1..index : new[i] = old[i]
             /\ \A i \in (index + 1)..Len(new) : new[i] = old[i + 1]]_vars

\* C9 witness: removeBand(residential, 1) has taken the 250 band out of the
\* default schedule.
C9_Witness ==
  /\ lastOp = Op("removeBand", "residential", 1)
  /\ rates["residential"] =
       << DefaultRates["residential"][1], DefaultRates["residential"][3],
          DefaultRates["residential"][4] >>

Limits(arr) == [i \in 1..Len(arr) |-> arr[i].limit]

\* C10: after reset the schedule is the default one: residential limits 50,
\* 250, 300 and unbounded, non-residential one unbounded band.
C10_ResetRestoresDefault ==
  lastOp.name = "resetRates" =>
    /\ rates = DefaultRates
    /\ Limits(rates["residential"]) = <<Fin(50), Fin(250), Fin(300), Infinity>>
    /\ Limits(rates["nonResidential"]) = <<Infinity>>

\* C10 witness: reset has run after every updateBand call of the behaviour.
C10_Witness ==
  /\ lastOp.name = "resetRates"
  /\ nUpdates = MaxUpdates

\* C11: no sequence of updateBand, addBand, removeBand and reset calls
\* changes the built-in default schedule object: the edits work on copies.
C11_DefaultScheduleNeverMutated ==
  initialRates = DefaultRates

\* C11 witness: updateBand has just given a class a band sequence other than
\* the default one.
C11_Witness ==
  /\ lastOp.name = "updateBand"
  /\ rates[lastOp.type] # DefaultRates[lastOp.type]
  /\ Len(rates[lastOp.type]) = Len(DefaultRates[lastOp.type])

\* C12: the units of a bill are currReading - prevReading when that is
\* positive and 0 otherwise; with currReading < prevReading the bill has 0
\* units, an empty breakdown, and calculateBill does not throw.
C12_UnitsClampedAtZero ==
  lastOp.name = "calculateBill" =>
    /\ ~thrown
    /\ results # Null
    /\ currReading >= prevReading =>
         results.units = Fin(currReading - prevReading)
    /\ currReading < prevReading =>
         /\ results.units = Fin(0)
         /\ results.bandBreakdown = <<>>
         /\ results.energyCost = Fin(0)

\* C12 witness: a bill computed with the current reading below the previous
\* one.
C12_Witness ==
  /\ lastOp.name = "calculateBill"
  /\ currReading < prevReading
  /\ results # Null
  /\ results.units = Fin(0)

RECURSIVE SumCost(_)
SumCost(breakdown) ==
  IF breakdown = <<>> THEN Fin(0)
  ELSE Plus(SumCost(SubSeq(breakdown, 1, Len(breakdown) - 1)),
            Times(Last(breakdown).used, Last(breakdown).rate))

\* C13: energyCost is the sum, in band order, of used * rate over the
\* entries of the breakdown, and each entry's cost is its used * rate.
C13_EnergyCostIsSumOfBandCosts ==
  results # Null =>
    /\ results.energyCost = SumCost(results.bandBreakdown)
    /\ \A i \in 1..Len(results.bandBreakdown) :
         results.bandBreakdown[i].cost =
           Times(results.bandBreakdown[i].used, results.bandBreakdown[i].rate)

\* C13 witness: a bill over three bands, the first two with a cost above 0.
C13_Witness ==
  /\ results # Null
  /\ Len(results.bandBreakdown) = 3
  /\ Less(Fin(0), results.bandBreakdown[1].cost)
  /\ Less(Fin(0), results.bandBreakdown[2].cost)
  /\ Less(results.bandBreakdown[2].cost, results.energyCost)

\* C14: streetLight is 0.03 and natElectLevy 0.02 of energyCost; a
\* residential bill has nhilGetFund = 0 and vat = 0; a non-residential bill
\* has nhilGetFund = 0.05 * energyCost and
\* vat = 0.15 * (energyCost + streetLight + natElectLevy + nhilGetFund).
C14_LeviesByClass ==
  results # Null =>
    /\ results.streetLight = Times(Num(3, 100), results.energyCost)
    /\ results.natElectLevy = Times(Num(2, 100), results.energyCost)
    /\ tariffType = "residential" =>
         /\ results.nhilGetFund = Fin(0)
         /\ results.vat = Fin(0)
    /\ tariffType = "nonResidential" =>
         /\ results.nhilGetFund = Times(Num(5, 100), results.energyCost)
         /\ results.vat =
              Times(Num(15, 100),
                    Plus(Plus(Plus(results.energyCost, results.streetLight),
                              results.natElectLevy),
                         results.nhilGetFund))

\* C14 witness: a non-residential bill with energy cost, and so with
\* NHIL/GETFund and VAT above 0.
C14_Witness ==
  /\ results # Null
  /\ tariffType = "nonResidential"
  /\ Less(Fin(0), results.nhilGetFund)
  /\ Less(results.nhilGetFund, results.vat)

\* The result of a detailed-mode calculation on the readings, class and
\* schedule of the state, with the four detail fields as given.
Detailed(days, balance, paid, adj) ==
  Bill(rates, tariffType, FALSE, prevReading, currReading,
       days, balance, paid, adj).value

\* The result of a quick-mode calculation on the same, with the four detail
\* fields as given.
Quick(days, balance, paid, adj) ==
  Bill(rates, tariffType, TRUE, prevReading, currReading,
       days, balance, paid, adj).value

\* C15: a bill computed in quick mode is the bill quick mode computes for any
\* other billing days, previous balance, payments and adjustment, and it is
\* the detailed-mode bill for 31 days and 0, 0, 0.
C15_QuickModeIgnoresDetails ==
  (lastOp.name = "calculateBill" /\ quickMode) =>
    /\ \A f \in FormVals : results = Quick(f[2], f[3], f[4], f[5])
    /\ results = Detailed(31, 0, 0, 0)

\* C15 witness: a quick-mode bill with units, computed while the form held 62
\* billing days and an adjustment of -5.
C15_Witness ==
  /\ lastOp.name = "calculateBill"
  /\ quickMode
  /\ billingDays = 62
  /\ adjustment = -5
  /\ results # Null
  /\ Less(Fin(0), results.units)

\* C16: totalBill is energyCost + streetLight + natElectLevy + nhilGetFund +
\* vat + serviceCharge, added from left to right; in detailed mode payable is
\* totalBill + prevBalance - payments + adjustment, from left to right, with
\* the three as filled in (a negative adjustment included), and the result
\* reports that adjustment.
C16_TotalAndPayable ==
  lastOp.name = "calculateBill" =>
    /\ results.totalBill =
         Plus(Plus(Plus(Plus(Plus(results.energyCost, results.streetLight),
                             results.natElectLevy),
                        results.nhilGetFund),
                   results.vat),
              results.serviceCharge)
    /\ ~quickMode =>
         /\ results.payable =
              Plus(Minus(Plus(results.totalBill, Fin(prevBalance)),
                         Fin(payments)),
                   Fin(adjustment))
         /\ results.adjustment = Fin(adjustment)

\* C16 witness: a detailed bill with energy cost, previous balance 50,
\* payments 20 and adjustment 5, payable about 35 above the total.
C16_Witness ==
  /\ lastOp.name = "calculateBill"
  /\ ~quickMode
  /\ prevBalance = 50 /\ payments = 20 /\ adjustment = 5
  /\ Near(results.payable, Plus(results.totalBill, Fin(35)))
  /\ Less(Fin(0), results.energyCost)

\* The flat monthly service charge of a class, as the claim gives it.
FlatCharge(type) ==
  IF type = "residential" THEN Num(213, 100) ELSE Num(1243, 100)

\* C17: the service charge of a bill is the flat amount of the class (2.13
\* residential, 12.43 non-residential) times days / 31: the flat amount for
\* 31 days, twice the 31-day charge for 62 days.
C17_ServiceChargeProrated ==
  lastOp.name = "calculateBill" =>
    LET days == IF quickMode THEN 31 ELSE billingDays IN
    /\ results.serviceCharge = Times(FlatCharge(tariffType), Num(days, 31))
    /\ days = 31 => results.serviceCharge = FlatCharge(tariffType)
    /\ days = 62 =>
         results.serviceCharge =
           Times(Fin(2), Detailed(31, prevBalance, payments,
                                  adjustment).serviceCharge)

\* C17 witness: a detailed residential bill for 62 days, service charge 4.26.
C17_Witness ==
  /\ lastOp.name = "calculateBill"
  /\ ~quickMode
  /\ billingDays = 62
  /\ tariffType = "residential"
  /\ results.serviceCharge = Num(426, 100)

\* The units left of units after the first k bands have taken theirs.
RECURSIVE Left(_, _, _)
Left(arr, k, units) ==
  IF k = 0 THEN units
  ELSE LET before == Left(arr, k - 1, units)
       IN  Minus(before, MathMin(before, arr[k].limit))

\* C18 as claimed: for a well-formed schedule the breakdown never has as many
\* entries as the schedule of the selected class has bands.
C18_BreakdownShorterThanSchedule ==
  (results # Null /\ WellFormed(rates[tariffType])) =>
    Len(results.bandBreakdown) # Len(rates[tariffType])

\* C18 as amended: the breakdown has one entry for each of the first n bands,
\* n the least count of bands after which no units are left (0 for 0 units);
\* n is at most the number of bands and equals it when units are left after
\* every finite band.
C18_BreakdownCoversTouchedBands ==
  (results # Null /\ WellFormed(rates[tariffType])) =>
    LET bands == rates[tariffType]
        n == Len(results.bandBreakdown)
    IN  /\ n <= Len(bands)
        /\ \A i \in 1..n : results.bandBreakdown[i].rate = bands[i].rate
        /\ results.units = Fin(0) => n = 0
        /\ Less(Fin(0), results.units) =>
             /\ n >= 1
             /\ Less(Fin(0), Left(bands, n - 1, results.units))
             /\ Left(bands, n, results.units) = Fin(0)
        /\ Less(Fin(0), Left(bands, Len(bands) - 1, results.units)) =>
             n = Len(bands)

\* C18 witness: a bill on the default non-residential schedule, whose one
\* band is the one entry of the breakdown.
C18_Witness ==
  /\ results # Null
  /\ tariffType = "nonResidential"
  /\ rates = DefaultRates
  /\ Len(results.bandBreakdown) = 1

\* C19: the result calculateBill stores is the bill of the readings, detail
\* fields, mode, class and schedule it was called with, whatever was
\* calculated, edited or cleared before.
C19_BillDependsOnInputsOnly ==
  lastOp.name = "calculateBill" =>
    /\ ~thrown
    /\ results =
         Bill(rates, tariffType, quickMode, prevReading, currReading,
              billingDays, prevBalance, payments, adjustment).value

\* C19 witness: a bill for 120 units on an edited non-residential schedule,
\* computed with remembering off while the reading an earlier calculation
\* saved is still held.
C19_Witness ==
  /\ lastOp.name = "calculateBill"
  /\ tariffType = "nonResidential"
  /\ rates[tariffType] # DefaultRates[tariffType]
  /\ ~rememberReadings
  /\ savedCurrReading = Fin(220)
  /\ results.units = Fin(120)

\* The inputs of the worked example: default schedule, residential, quick
\* mode, readings 100 and 220.
ExampleInputs ==
  /\ rates = DefaultRates
  /\ tariffType = "residential"
  /\ quickMode
  /\ prevReading = 100
  /\ currReading = 220

\* C20 as claimed: on the example inputs the bill has 120 units, the
\* breakdown 50 units at 1.4878 (74.39) and 70 units at 1.90 (133.00),
\* energyCost 207.39, streetLight 6.2217, natElectLevy 4.1478, serviceCharge
\* 2.13, nhilGetFund 0, vat 0, and totalBill = payable = 219.8895.
C20_ResidentialQuickExample ==
  (lastOp.name = "calculateBill" /\ ExampleInputs) =>
    results =
      [units |-> Fin(120),
       bandBreakdown |->
         << [used |-> Fin(50), rate |-> Num(14878, 10000),
             cost |-> Num(7439, 100)],
            [used |-> Fin(70), rate |-> Num(190, 100), cost |-> Fin(133)] >>,
       energyCost |-> Num(20739, 100),
       serviceCharge |-> Num(213, 100),
       natElectLevy |-> Num(41478, 10000),
       streetLight |-> Num(62217, 10000),
       nhilGetFund |-> Fin(0),
       vat |-> Fin(0),
       totalBill |-> Num(2198895, 10000),
       adjustment |-> Fin(0),
       payable |-> Num(2198895, 10000)]

\* C20 as amended: on the example inputs units, breakdown, energyCost,
\* natElectLevy, serviceCharge, nhilGetFund and vat are the doubles of the
\* values claimed; streetLight is within rounding of 6.2217 and totalBill and
\* payable, equal to each other, are within rounding of 219.8895.
C20_ResidentialQuickExampleRounded ==
  (lastOp.name = "calculateBill" /\ ExampleInputs) =>
    /\ results.units = Fin(120)
    /\ results.bandBreakdown =
         << [used |-> Fin(50), rate |-> Num(14878, 10000),
             cost |-> Num(7439, 100)],
            [used |-> Fin(70), rate |-> Num(190, 100), cost |-> Fin(133)] >>
    /\ results.energyCost = Num(20739, 100)
    /\ results.serviceCharge = Num(213, 100)
    /\ results.natElectLevy = Num(41478, 10000)
    /\ Near(results.streetLight, Num(62217, 10000))
    /\ results.nhilGetFund = Fin(0)
    /\ results.vat = Fin(0)
    /\ Near(results.totalBill, Num(2198895, 10000))
    /\ results.adjustment = Fin(0)
    /\ results.payable = results.totalBill

\* C20 witness: the bill of the example has been calculated, with a total
\* that is not the double of 219.8895.
C20_Witness ==
  /\ lastOp.name = "calculateBill"
  /\ ExampleInputs
  /\ results # Null
  /\ results.units = Fin(120)
  /\ Len(results.bandBreakdown) = 2
  /\ results.totalBill # Num(2198895, 10000)

\* The inputs of the second worked example: default schedule, non-residential,
\* detailed mode, 31 days, previous balance 50, payments 20, adjustment 5,
\* readings 0 and 500.
DetailedExampleInputs ==
  /\ rates = DefaultRates
  /\ tariffType = "nonResidential"
  /\ ~quickMode
  /\ billingDays = 31 /\ prevBalance = 50 /\ payments = 20 /\ adjustment = 5
  /\ prevReading = 0
  /\ currReading = 500

\* C21 as claimed: on the inputs of the second example the bill has 500
\* units at 1.59, energyCost 795, streetLight 23.85, natElectLevy 15.90,
\* nhilGetFund 39.75, vat 131.175, serviceCharge 12.43, totalBill 1018.105,
\* payable 1053.105.
C21_NonResidentialDetailedExample ==
  (lastOp.name = "calculateBill" /\ DetailedExampleInputs) =>
    results =
      [units |-> Fin(500),
       bandBreakdown |->
         << [used |-> Fin(500), rate |-> Num(159, 100), cost |-> Fin(795)] >>,
       energyCost |-> Fin(795),
       serviceCharge |-> Num(1243, 100),
       natElectLevy |-> Num(1590, 100),
       streetLight |-> Num(2385, 100),
       nhilGetFund |-> Num(3975, 100),
       vat |-> Num(131175, 1000),
       totalBill |-> Num(1018105, 1000),
       adjustment |-> Fin(5),
       payable |-> Num(1053105, 1000)]

\* C21 as amended: on the inputs of the second example units, breakdown,
\* energyCost, natElectLevy, nhilGetFund, serviceCharge, adjustment and
\* payable are the doubles of the values claimed; streetLight, vat and
\* totalBill are within rounding of 23.85, 131.175 and 1018.105.
C21_NonResidentialDetailedExampleRounded ==
  (lastOp.name = "calculateBill" /\ DetailedExampleInputs) =>
    /\ results.units = Fin(500)
    /\ results.bandBreakdown =
         << [used |-> Fin(500), rate |-> Num(159, 100), cost |-> Fin(795)] >>
    /\ results.energyCost = Fin(795)
    /\ results.serviceCharge = Num(1243, 100)
    /\ results.natElectLevy = Num(1590, 100)
    /\ Near(results.streetLight, Num(2385, 100))
    /\ results.nhilGetFund = Num(3975, 100)
    /\ Near(results.vat, Num(131175, 1000))
    /\ Near(results.totalBill, Num(1018105, 1000))
    /\ results.adjustment = Fin(5)
    /\ results.payable = Num(1053105, 1000)

\* C21 witness: the bill of the second example has been calculated, with a
\* VAT that is not the double of 131.175.
C21_Witness ==
  /\ lastOp.name = "calculateBill"
  /\ DetailedExampleInputs
  /\ results # Null
  /\ results.units = Fin(500)
  /\ Len(results.bandBreakdown) = 1
  /\ results.vat # Num(131175, 1000)

\* C22: for a well-formed schedule, entry i of the breakdown carries the rate
\* of band i, has used <= the limit of band i, and, unless it is the last
\* entry, has used equal to that limit: a band is full before the next one
\* gets units.
C22_BandsFilledInOrder ==
  (results # Null /\ WellFormed(rates[tariffType])) =>
    LET bands == rates[tariffType]
        breakdown == results.bandBreakdown
    IN  \A i \in 1..Len(breakdown) :
          /\ i <= Len(bands)
          /\ breakdown[i].rate = bands[i].rate
          /\ AtMost(breakdown[i].used, bands[i].limit)
          /\ i < Len(breakdown) => breakdown[i].used = bands[i].limit

\* C22 witness: a bill whose first band is full and whose second, finite band
\* holds the rest, below its limit.
C22_Witness ==
  /\ results # Null
  /\ WellFormed(rates[tariffType])
  /\ Len(results.bandBreakdown) = 2
  /\ Len(rates[tariffType]) >= 3
  /\ results.bandBreakdown[1].used = rates[tariffType][1].limit
  /\ Less(results.bandBreakdown[2].used, rates[tariffType][2].limit)
  /\ Less(Fin(0), results.bandBreakdown[1].used)

\* The fields the two variants' results share.
SharedFields ==
  {"units", "bandBreakdown", "energyCost", "serviceCharge", "natElectLevy",
   "streetLight", "nhilGetFund", "vat", "totalBill", "payable"}

\* Current reading, mode, billing days, previous balance and payments to
\* compare the two variants on.
CompareCases ==
  {<<0, TRUE, 31, 0, 0>>, <<100, FALSE, 31, 0, 0>>, <<220, FALSE, 31, 50, 20>>,
   <<500, FALSE, 62, 0, 0>>, <<500, TRUE, 62, 50, 20>>}

\* A result cut down to the fields the variants share.
Shared(bill) ==
  [threw |-> bill.threw,
   value |-> [f \in SharedFields |-> bill.value[f]]]

\* With adjustment 0 the two variants compute the same bill on the schedule
\* of the state, or both throw.
BillsAgree ==
  \A type \in Classes, c \in CompareCases :
    Shared(Bill(rates, type, c[2], 0, c[1], c[3], c[4], c[5], 0)) =
      PagesBill(rates, type, c[2], 0, c[1], c[3], c[4], c[5])

\* Each edit gives the class the band sequence the variant's edit gives it.
EditsAgree ==
  /\ \A type \in Classes : \A index \in -1..(Len(rates[type]) + 1),
                              updates \in UpdateVals :
       updateBand(type, index, updates) =>
         rates' = [rates EXCEPT
                     ![type] = PagesUpdateBandArr(rates[type], index, updates)]
  /\ \A type \in Classes :
       addBandBeforeInfinity(type) =>
         rates' = [rates EXCEPT ![type] = PagesAddBandArr(rates[type])]
  /\ \A type \in Classes : \A index \in -1..(Len(rates[type]) + 1) :
       removeBand(type, index) =>
         rates' = [rates EXCEPT
                     ![type] = PagesRemoveBandArr(rates[type], index)]
  /\ resetRates => rates' = PagesInitialRates

\* C23: the two variants start from the same default schedule, every edit
\* gives the same schedule in both, and on every schedule so reached they
\* compute, with adjustment 0, the same units, breakdown, energyCost, levies,
\* vat, serviceCharge, totalBill and payable.
C23_VariantsAgree ==
  /\ initialRates = PagesInitialRates
  /\ [](BillsAgree)
  /\ [][EditsAgree]_vars

\* C23 witness: a schedule with a band added and one edited, on which the
\* variants' bills for 500 units differ from the bills on the default.
C23_Witness ==
  /\ lastOp.name = "updateBand"
  /\ Len(rates["nonResidential"]) = 2
  /\ rates["nonResidential"][1].limit = Fin(10)
  /\ ~Bill(rates, "nonResidential", FALSE, 0, 500, 62, 50, 20, 0).threw
  /\ Bill(rates, "nonResidential", FALSE, 0, 500, 62, 50, 20, 0).value.energyCost
       # Fin(795)

\* C24: a stored result stays as it is through every step that is not
\* calculateBill or Clear: setting a reading, a detail field, the mode or the
\* class, updateBand, addBand, removeBand and reset leave it alone.
C24_StoredResultKept ==
  [][(results # Null /\ ~(calculateBill(Written)) /\ ~clear) => results' = results]_vars

\* C24 witness: updateBand has changed the schedule of the selected class
\* after a bill with units was stored, and the stored bill is no longer the
\* bill of the state.
C24_Witness ==
  /\ lastOp.name = "updateBand"
  /\ lastOp.type = tariffType
  /\ results # Null
  /\ Less(Fin(0), results.units)
  /\ ~Bill(rates, tariffType, quickMode, prevReading, currReading, billingDays,
           prevBalance, payments, adjustment).threw
  /\ results # Bill(rates, tariffType, quickMode, prevReading, currReading,
                    billingDays, prevBalance, payments, adjustment).value

\* C25: a step of updateBand, addBand or removeBand on one class, with any
\* index and field values, leaves the band sequence of the other class as it
\* was.
C25_OtherClassUntouched ==
  [][lastOp'.name \in {"updateBand", "addBand", "removeBand"} =>
       \A other \in Classes \ {lastOp'.type} :
         rates'[other] = rates[other]]_vars

\* C25 witness: updateBand has changed the non-residential class while the
\* residential class holds a schedule other than the default.
C25_Witness ==
  /\ lastOp.name = "updateBand"
  /\ lastOp.type = "nonResidential"
  /\ rates["nonResidential"] # DefaultRates["nonResidential"]
  /\ rates["residential"] # DefaultRates["residential"]
  /\ Len(rates["residential"]) = 3

\* The bill of the state with the current reading replaced by curr.
BillAt(curr) ==
  Bill(rates, tariffType, quickMode, prevReading, curr, billingDays,
       prevBalance, payments, adjustment).value

\* No rate of the schedule is below 0.
RatesNonNegative(arr) ==
  \A i \in 1..Len(arr) : IsNum(arr[i].rate) /\ ~Less(arr[i].rate, Fin(0))

\* The pairs of readings with no reading of ReadingVals between them.
ReadingSteps ==
  {p \in ReadingVals \X ReadingVals :
     p[1] < p[2] /\ ~\E m \in ReadingVals : p[1] < m /\ m < p[2]}

\* C26: for a well-formed schedule with rates >= 0 and all other inputs as
\* they are, the calculated bill is the bill of its current reading, and from
\* each current reading to the next higher one neither energyCost nor
\* totalBill goes down; with 0 units energyCost is 0 and the breakdown empty.
C26_CostMonotoneInUnits ==
  (lastOp.name = "calculateBill" /\ WellFormed(rates[tariffType])
     /\ RatesNonNegative(rates[tariffType])) =>
    /\ LET bill == BillAt(currReading) IN
         /\ results.energyCost = bill.energyCost
         /\ results.totalBill = bill.totalBill
    /\ \A p \in ReadingSteps :
         LET lower == BillAt(p[1])
             higher == BillAt(p[2]) IN
           /\ ~Less(higher.energyCost, lower.energyCost)
           /\ ~Less(higher.totalBill, lower.totalBill)
    /\ results.units = Fin(0) =>
         /\ results.energyCost = Fin(0)
         /\ results.bandBreakdown = <<>>

\* C26 witness: a bill for 500 units that costs more than the bill for 220
\* units on the same schedule, which costs more than the one for 100.
C26_Witness ==
  /\ lastOp.name = "calculateBill"
  /\ prevReading = 0
  /\ currReading = 500
  /\ WellFormed(rates[tariffType])
  /\ Less(BillAt(220).energyCost, results.energyCost)
  /\ Less(BillAt(100).totalBill, BillAt(220).totalBill)

====
